---- MODULE Spec2Model ----
(***************************************************************************)
(* Building clearance (structure gauge) engine of the V22 simulator:       *)
(* ClearanceModelV22, ExcelAccurateCalculatorV22 and the entries and       *)
(* buttons of ClearanceAppV22UI and the NumericKeypad of                   *)
(* clearance_app_v22_font_fixed.py, with the envelope transformation of    *)
(* clearance_app_v10_perfect_ui.py and the widenings, the cant angle and   *)
(* the transformed outline of building_limit_calculator.py and             *)
(* building_limit_calculator_fixed.py.                                     *)
(*                                                                         *)
(* Numbers.  The program computes in Python floats.  Here every length is  *)
(* a fixed-point integer counted in 1/Scale millimetre ("units"); cant is  *)
(* an integer number of millimetres and the curve radius an integer number *)
(* of metres, as typed into the application.  Products do not fit TLC's    *)
(* 32-bit integers, so squares and products are carried as pairs           *)
(* <<hi, lo>> meaning hi * Wide + lo.  Square roots are cut to the         *)
(* resolution, quotients are rounded to it: a length of the model is       *)
(* within a few units of the float the program computes, and equal to it   *)
(* wherever the float is a whole number of units.                          *)
(***************************************************************************)
EXTENDS Integers, Sequences, FiniteSets, TLC

VARIABLES
    measurement,   \* the four inputs of one query
    result,        \* what calculate_all_excel_method returned for it
    height,        \* a height handed to the copies of the base clearance rule
    clearances,    \* what each copy answered for that height
    curve_radius,  \* a radius handed to the widening computations
    corrections,   \* what the widening or cant computations answered
    distance_var,        \* ClearanceAppV22UI: the text of the offset entry
    height_var,          \* the text of the height entry
    cant_var,            \* the text of the cant entry
    radius_var,          \* the text of the radius entry
    calculation_result,  \* the stored result, NoResult for None
    is_calculated,       \* the flag beside it
    base_clearance,      \* the outline built at construction
    drawn_clearance,     \* the outline on the canvas
    result_text,         \* the lines of the result panel
    error_dialog,        \* whether the last operation showed the input error
    excel_calculator,    \* the fields of the ExcelAccurateCalculatorV22
    clearance_model,     \* the fields of the ClearanceModelV22
    caller_points,       \* an outline handed to the transformations
    transform_input,     \* the cant, radius and offset handed with it
    transformed,         \* what the transformation returned
    entry_widget,        \* NumericKeypad: the characters of the target entry
    allow_negative,      \* whether the keypad has the sign button
    display_var,         \* the characters of the keypad's display
    keypad_open,         \* whether the keypad window exists
    keypad_error         \* whether the last press showed the invalid-number error

appVars ==
    <<distance_var, height_var, cant_var, radius_var, calculation_result,
      is_calculated, base_clearance, drawn_clearance, result_text,
      error_dialog, excel_calculator, clearance_model>>

envelopeVars == <<caller_points, transform_input, transformed>>

keypadVars ==
    <<entry_widget, allow_negative, display_var, keypad_open, keypad_error>>

vars ==
    <<measurement, result, height, clearances, curve_radius, corrections,
      appVars, envelopeVars, keypadVars>>

----------------------------------------------------------------------------
(* Fixed-point arithmetic standing for Python float arithmetic.            *)

Scale == 100
Wide == 1000000
Thousand == 1000

Abs(v) == IF v < 0 THEN -v ELSE v
Sign(v) == IF v < 0 THEN -1 ELSE IF v > 0 THEN 1 ELSE 0

\* a * b for 0 <= a, b < Wide, as a pair
Mul(a, b) ==
    LET a1 == a \div Thousand
        a0 == a % Thousand
        b1 == b \div Thousand
        b0 == b % Thousand
        mid == a1 * b0 + a0 * b1
        lo == (mid % Thousand) * Thousand + a0 * b0
    IN  <<a1 * b1 + (mid \div Thousand) + (lo \div Wide), lo % Wide>>

Sq(a) == Mul(Abs(a), Abs(a))

WAdd(p, q) ==
    LET lo == p[2] + q[2]
    IN  <<p[1] + q[1] + (lo \div Wide), lo % Wide>>

WLeq(p, q) == p[1] < q[1] \/ (p[1] = q[1] /\ p[2] <= q[2])

WLess(p, q) == p[1] < q[1] \/ (p[1] = q[1] /\ p[2] < q[2])

\* p - q for p >= q
WSub(p, q) ==
    IF p[2] >= q[2] THEN <<p[1] - q[1], p[2] - q[2]>>
    ELSE <<p[1] - q[1] - 1, p[2] + Wide - q[2]>>

RECURSIVE SqrtSearch(_, _, _)
SqrtSearch(p, lo, hi) ==
    IF lo = hi THEN lo
    ELSE LET mid == (lo + hi + 1) \div 2
         IN  IF WLeq(Mul(mid, mid), p) THEN SqrtSearch(p, mid, hi)
             ELSE SqrtSearch(p, lo, mid - 1)

\* math.sqrt: the largest r with r * r <= p
WSqrt(p) == SqrtSearch(p, 0, Wide - 1)

RECURSIVE DivSearch(_, _, _, _)
DivSearch(p, d, lo, hi) ==
    IF lo = hi THEN lo
    ELSE LET mid == (lo + hi + 1) \div 2
         IN  IF WLeq(Mul(mid, d), p) THEN DivSearch(p, d, mid, hi)
             ELSE DivSearch(p, d, lo, mid - 1)

\* p / d rounded to the nearest integer, for 0 < d < Wide
WDiv(p, d) == DivSearch(WAdd(p, <<0, d \div 2>>), d, 0, Wide - 1)

\* a / b rounded to the nearest integer, for a >= 0, b > 0
RoundDiv(a, b) == (2 * a + b) \div (2 * b)

\* math.ceil and math.floor of a non-negative length, in whole millimetres
Ceil(v) == (v + Scale - 1) \div Scale
Floor(v) == v \div Scale

\* float('inf')
Infinity == 2000 * Wide

----------------------------------------------------------------------------
(* Trigonometry of the cant angle atan(cant_mm / rail_gauge):              *)
(*   sin = cant_mm / sqrt(cant_mm^2 + rail_gauge^2)                        *)
(*   cos = rail_gauge / sqrt(cant_mm^2 + rail_gauge^2)                     *)

rail_gauge == 1067

AngleScale == 900

\* sqrt(cant_mm^2 + rail_gauge^2), in 1/AngleScale millimetre
Hypotenuse(cant_mm) ==
    WSqrt(WAdd(Sq(cant_mm * AngleScale), Sq(rail_gauge * AngleScale)))

\* length * math.sin(math.atan(cant_mm / rail_gauge))
TimesSin(length, cant_mm) ==
    Sign(length) * Sign(cant_mm)
        * WDiv(Mul(Abs(length), Abs(cant_mm) * AngleScale), Hypotenuse(cant_mm))

\* length * math.cos(math.atan(cant_mm / rail_gauge))
TimesCos(length, cant_mm) ==
    Sign(length)
        * WDiv(Mul(Abs(length), rail_gauge * AngleScale), Hypotenuse(cant_mm))

----------------------------------------------------------------------------
(* ClearanceModelV22                                                       *)

\* math.sqrt(radius**2 - (height - centre)**2), 0 when the discriminant is
\* negative; radius and centre in millimetres
ArcHalfWidth(radius, centre, h) ==
    IF WLess(Sq(radius * Scale), Sq(h - centre * Scale)) THEN 0
    ELSE WSqrt(WSub(Sq(radius * Scale), Sq(h - centre * Scale)))

\* 1225 + (height - 25) * (1575 - 1225) / (375 - 25)
Ramp(h) == 1225 * Scale + RoundDiv((h - 25 * Scale) * (1575 - 1225), 375 - 25)

\* the rule with the slope counted from the rail level instead of from 25 mm
calculate_base_clearance_at_height_slope_from_rail_level(h) ==
    IF h < 0 THEN Infinity
    ELSE IF h < 25 * Scale THEN 1225 * Scale
    ELSE IF h < 375 * Scale THEN 1225 * Scale + RoundDiv(h * (1575 - 1225), 375 - 25)
    ELSE IF h < 920 * Scale THEN 1575 * Scale
    ELSE IF h < 3156 * Scale THEN 1900 * Scale
    ELSE IF h < 3823 * Scale THEN ArcHalfWidth(2150, 2150, h)
    ELSE IF h < 5190 * Scale THEN 1350 * Scale
    ELSE ArcHalfWidth(1800, 4000, h)

calculate_base_clearance_at_height(h) ==
    IF h < 0 THEN Infinity
    ELSE IF h < 25 * Scale THEN 1225 * Scale
    ELSE IF h < 375 * Scale THEN Ramp(h)
    ELSE IF h < 920 * Scale THEN 1575 * Scale
    ELSE IF h < 3156 * Scale THEN 1900 * Scale
    ELSE IF h < 3823 * Scale THEN ArcHalfWidth(2150, 2150, h)
    ELSE IF h < 5190 * Scale THEN 1350 * Scale
    ELSE ArcHalfWidth(1800, 4000, h)

\* the correction taken with the cosine of the cant angle
calculate_cant_correction_with_cosine(h, cant_mm) == TimesCos(h, cant_mm)

calculate_cant_correction(h, cant_mm) ==
    IF cant_mm = 0 THEN 0 ELSE TimesSin(h, cant_mm)

calculate_curve_widening(curve_radius_m) ==
    IF curve_radius_m = 0 THEN 0
    ELSE Sign(curve_radius_m) * RoundDiv(23000 * Scale, Abs(curve_radius_m))

calculate_required_clearance(h, cant_mm, curve_radius_m) ==
    calculate_base_clearance_at_height(h)
        + calculate_cant_correction(h, cant_mm)
        + calculate_curve_widening(curve_radius_m)

\* np.linspace(first, last, count)[i], first and last in millimetres
linspace(first, last, count, i) ==
    first * Scale + RoundDiv(i * (last - first) * Scale, count - 1)

\* the ten points of the slope from 25 mm to 375 mm
slope_points ==
    [i \in 1..10 |->
        LET h == linspace(25, 375, 10, i - 1) IN <<Ramp(h), h>>]

\* the points of the arc from 3156 mm to 3823 mm: the heights whose
\* discriminant is not negative
arc_points ==
    LET arc_heights == [i \in 1..100 |-> linspace(3156, 3823, 100, i - 1)]
        discriminant_not_negative(h) ==
            ~WLess(Sq(2150 * Scale), Sq(h - 2150 * Scale))
        kept == SelectSeq(arc_heights, discriminant_not_negative)
    IN  [i \in 1..Len(kept) |-> <<ArcHalfWidth(2150, 2150, kept[i]), kept[i]>>]

\* (1800 * math.cos(angle), 4000 + 1800 * math.sin(angle)) for the 30 angles
\* from atan2(sqrt(1800**2 - 1350**2), 1350) to pi / 2; x is rounded up to the
\* resolution, so that a float above 1350 stays above 1350, and y to the
\* nearest unit
upper_arc_candidates ==
    <<<<135001, 519059>>, <<131462, 522955>>, <<127810, 526746>>,
      <<124050, 530429>>, <<120183, 534001>>, <<116213, 537457>>,
      <<112145, 540797>>, <<107980, 544016>>, <<103723, 547111>>,
      <<99377, 550081>>, <<94946, 552923>>, <<90434, 555633>>,
      <<85845, 558211>>, <<81182, 560653>>, <<76450, 562958>>,
      <<71653, 565124>>, <<66794, 567149>>, <<61878, 569030>>,
      <<56909, 570767>>, <<51892, 572358>>, <<46830, 573802>>,
      <<41728, 575097>>, <<36591, 576242>>, <<31422, 577236>>,
      <<26226, 578079>>, <<21008, 578770>>, <<15772, 579308>>,
      <<10522, 579692>>, <<5264, 579923>>, <<1, 580000>>>>

\* the filter of the loop over the upper arc
upper_arc_kept(point) ==
    /\ Abs(point[1]) <= 1350 * Scale
    /\ point[2] <= 5700 * Scale
    /\ point[2] >= 4000 * Scale

upper_arc_points == SelectSeq(upper_arc_candidates, upper_arc_kept)

\* the right side and the top of the outline, as appended before the left
\* side is derived from them
outline_right_and_top ==
    <<<<1225 * Scale, 0>>, <<1225 * Scale, 25 * Scale>>>>
        \o slope_points
        \o <<<<1575 * Scale, 920 * Scale>>, <<1900 * Scale, 920 * Scale>>,
             <<1900 * Scale, 3156 * Scale>>>>
        \o arc_points
        \o <<<<1350 * Scale, 3823 * Scale>>, <<1350 * Scale, 4300 * Scale>>>>
        \o upper_arc_points
        \o <<<<1350 * Scale, 5700 * Scale>>, <<-1350 * Scale, 5700 * Scale>>>>

Reversed(seq) == [i \in 1..Len(seq) |-> seq[Len(seq) + 1 - i]]

\* right_points[1:-1] mirrored: the reversed right side without its first
\* and its last point
outline_left(points) ==
    LET is_right(point) == point[1] > 0
        right_points == Reversed(SelectSeq(points, is_right))
        inner == SubSeq(right_points, 2, Len(right_points) - 1)
    IN  [i \in 1..Len(inner) |-> <<-inner[i][1], inner[i][2]>>]

create_accurate_clearance ==
    outline_right_and_top
        \o outline_left(outline_right_and_top)
        \o <<<<1225 * Scale, 0>>>>

\* length * math.sin(cant_angle) and length * math.cos(cant_angle), the
\* hypotenuse of the cant angle being computed once for all vertices
TimesSinOver(length, cant_mm, hypotenuse) ==
    Sign(length) * Sign(cant_mm)
        * WDiv(Mul(Abs(length), Abs(cant_mm) * AngleScale), hypotenuse)

TimesCosOver(length, hypotenuse) ==
    Sign(length) * WDiv(Mul(Abs(length), rail_gauge * AngleScale), hypotenuse)

\* the vertex turned by the cant angle in the moved frame first and widened
\* afterwards
excel_display_vertex_rotated_first(vertex, widening, cant_mm, hypotenuse, measurement_distance) ==
    LET o_coord == vertex[1] + measurement_distance
        p_coord == vertex[2]
        excel_aa_coord ==
            IF cant_mm = 0 THEN o_coord
            ELSE TimesCosOver(o_coord, hypotenuse)
                     - TimesSinOver(p_coord, cant_mm, hypotenuse)
        excel_ab_coord ==
            IF cant_mm = 0 THEN p_coord
            ELSE TimesSinOver(o_coord, cant_mm, hypotenuse)
                     + TimesCosOver(p_coord, hypotenuse)
        a_coord == excel_aa_coord - measurement_distance
    IN  <<a_coord + Sign(vertex[1]) * widening, excel_ab_coord>>

\* one vertex through the steps of transform_clearance_excel_display_method:
\* widened (L, M), moved by the measured offset (O, P), turned by the cant
\* angle about the origin of the moved frame (AA, AB), moved back.  The polar
\* form W * cos(T + cant_angle), W * sin(T + cant_angle) of the program is
\* the rotation o * cos - p * sin, o * sin + p * cos; with cant_angle = 0 it
\* is (o, p)
excel_display_vertex(vertex, widening, cant_mm, hypotenuse, measurement_distance) ==
    LET a_coord == vertex[1]
        b_coord == vertex[2]
        l_coord == IF a_coord # 0
                   THEN (IF a_coord > 0 THEN a_coord + widening
                         ELSE a_coord - widening)
                   ELSE 0
        m_coord == b_coord
        o_coord == l_coord + measurement_distance
        p_coord == m_coord
        excel_aa_coord ==
            IF cant_mm = 0 THEN o_coord
            ELSE TimesCosOver(o_coord, hypotenuse)
                     - TimesSinOver(p_coord, cant_mm, hypotenuse)
        excel_ab_coord ==
            IF cant_mm = 0 THEN p_coord
            ELSE TimesSinOver(o_coord, cant_mm, hypotenuse)
                     + TimesCosOver(p_coord, hypotenuse)
    IN  <<excel_aa_coord - measurement_distance, excel_ab_coord>>

transform_clearance_excel_display_method(points, cant_mm, curve_radius_m, measurement_distance) ==
    IF points = <<>> THEN <<>>
    ELSE LET widening == IF curve_radius_m > 0
                         THEN calculate_curve_widening(curve_radius_m) ELSE 0
             hypotenuse == Hypotenuse(cant_mm)
         IN  [i \in 1..Len(points) |->
                 excel_display_vertex(
                     points[i], widening, cant_mm, hypotenuse, measurement_distance)]

\* transform_clearance of clearance_app_v10_perfect_ui.py: the coordinates
\* are multiplied by the transposed rotation matrix, then widened by
\* np.sign(x) * 23000.0 / curve_radius_m
transform_clearance(outline, cant_mm, curve_radius_m) ==
    IF outline = <<>> THEN <<>>
    ELSE LET hypotenuse == Hypotenuse(cant_mm)
             rotated(vertex) ==
                 IF cant_mm # 0
                 THEN <<TimesCosOver(vertex[1], hypotenuse)
                            - TimesSinOver(vertex[2], cant_mm, hypotenuse),
                        TimesSinOver(vertex[1], cant_mm, hypotenuse)
                            + TimesCosOver(vertex[2], hypotenuse)>>
                 ELSE vertex
             widening_factor == RoundDiv(23000 * Scale, curve_radius_m)
             widened(vertex) ==
                 IF curve_radius_m > 0
                 THEN <<vertex[1] + Sign(vertex[1]) * widening_factor, vertex[2]>>
                 ELSE vertex
         IN  [i \in 1..Len(outline) |-> widened(rotated(outline[i]))]

----------------------------------------------------------------------------
(* ExcelAccurateCalculatorV22                                              *)

NumSamples == 1775
TopHeight == 5700

\* np.linspace(0, 5700, 1775)[i]
heights(i) == RoundDiv(i * TopHeight * Scale, NumSamples - 1)

\* the widening computed at the head of _create_clearance_data_with_widening
clearance_data_widening(curve_radius_m) ==
    IF curve_radius_m > 0 THEN RoundDiv(23000 * Scale, curve_radius_m) ELSE 0

\* the rule of the loop body with the step at 920 mm closed on the left
clearance_data_base_clearance_920_below(h) ==
    IF h < 25 * Scale THEN 1225 * Scale
    ELSE IF h < 375 * Scale THEN Ramp(h)
    ELSE IF h <= 920 * Scale THEN 1575 * Scale
    ELSE IF h < 3156 * Scale THEN 1900 * Scale
    ELSE IF h < 3823 * Scale THEN ArcHalfWidth(2150, 2150, h)
    ELSE IF h < 5190 * Scale THEN 1350 * Scale
    ELSE ArcHalfWidth(1800, 4000, h)

\* the base clearance computed in the loop body of
\* _create_clearance_data_with_widening; the heights of the loop are never
\* negative
clearance_data_base_clearance(h) ==
    IF h < 25 * Scale THEN 1225 * Scale
    ELSE IF h < 375 * Scale THEN Ramp(h)
    ELSE IF h < 920 * Scale THEN 1575 * Scale
    ELSE IF h < 3156 * Scale THEN 1900 * Scale
    ELSE IF h < 3823 * Scale THEN ArcHalfWidth(2150, 2150, h)
    ELSE IF h < 5190 * Scale THEN 1350 * Scale
    ELSE ArcHalfWidth(1800, 4000, h)

\* the samples before widening: they are the same for every radius
BaseSamples ==
    [i \in 0..(NumSamples - 1) |->
        <<clearance_data_base_clearance(heights(i)), heights(i)>>]

create_clearance_data_with_widening(curve_radius_m) ==
    [i \in 0..(NumSamples - 1) |->
        <<BaseSamples[i][1] + clearance_data_widening(curve_radius_m),
          BaseSamples[i][2]>>]

\* the transformation as a generic rotation, which also scales the offset
\* by the cosine
coordinate_transform_generic_rotation(measurement_distance, measurement_height, cant_mm) ==
    IF cant_mm = 0 THEN <<measurement_distance, measurement_height>>
    ELSE <<TimesCos(measurement_distance, cant_mm)
               - TimesSin(measurement_height, cant_mm),
           TimesCos(measurement_height, cant_mm)>>

\* the transformation with the sign of the sine term flipped
coordinate_transform_sine_added(measurement_distance, measurement_height, cant_mm) ==
    IF cant_mm = 0 THEN <<measurement_distance, measurement_height>>
    ELSE <<measurement_distance + TimesSin(measurement_height, cant_mm),
           TimesCos(measurement_height, cant_mm)>>

coordinate_transform_to_rail_center(measurement_distance, measurement_height, cant_mm) ==
    IF cant_mm = 0 THEN <<measurement_distance, measurement_height>>
    ELSE <<measurement_distance - TimesSin(measurement_height, cant_mm),
           TimesCos(measurement_height, cant_mm)>>

\* the widening computed in calculate_required_clearance_excel_method
required_clearance_widening(curve_radius_m) ==
    IF curve_radius_m > 0 THEN RoundDiv(23000 * Scale, curve_radius_m) ELSE 0

\* the cant correction of calculate_required_clearance_excel_method: it takes
\* the measured height, not the transformed one
required_clearance_cant_correction(measurement_height, cant_mm) ==
    IF cant_mm = 0 THEN 0 ELSE TimesSin(measurement_height, cant_mm)

\* the base clearance of calculate_required_clearance_excel_method
required_clearance_base_clearance(yd) ==
    IF yd < 25 * Scale THEN
        (IF yd <= 350 * Scale THEN 1225 * Scale + yd ELSE (1225 + 350) * Scale)
    ELSE IF yd < 375 * Scale THEN
        (IF yd <= 350 * Scale THEN 1225 * Scale + yd ELSE (1225 + 350) * Scale)
    ELSE IF yd < 920 * Scale THEN 1575 * Scale
    ELSE IF yd < 3156 * Scale THEN 1900 * Scale
    ELSE IF yd < 3823 * Scale THEN ArcHalfWidth(2150, 2150, yd)
    ELSE IF yd < 5190 * Scale THEN 1350 * Scale
    ELSE ArcHalfWidth(1800, 4000, yd)

calculate_required_clearance_excel_method(measurement_distance, measurement_height, cant_mm, curve_radius_m) ==
    LET rail == coordinate_transform_to_rail_center(
                    measurement_distance, measurement_height, cant_mm)
    IN  required_clearance_base_clearance(rail[2])
          + required_clearance_widening(curve_radius_m)
          + required_clearance_cant_correction(measurement_height, cant_mm)

\* dx**2 + dy**2 from the rail-centre point to one sample
SquaredDistance(rail_x, rail_y, sample) ==
    WAdd(Sq(rail_x - sample[1]), Sq(rail_y - sample[2]))

WMin(p, q) == IF WLeq(p, q) THEN p ELSE q

RECURSIVE MinSquaredDistance(_, _, _, _, _)
MinSquaredDistance(rail_x, rail_y, data, first, last) ==
    IF first = last THEN SquaredDistance(rail_x, rail_y, data[first])
    ELSE LET mid == (first + last) \div 2
         IN  WMin(MinSquaredDistance(rail_x, rail_y, data, first, mid),
                  MinSquaredDistance(rail_x, rail_y, data, mid + 1, last))

\* ag2 measured to a reference set that is rotated by the cant angle
calculate_ag2_excel_method_rotated_samples(measurement_distance, measurement_height, cant_mm, curve_radius_m) ==
    LET rail == coordinate_transform_to_rail_center(
                    measurement_distance, measurement_height, cant_mm)
        data == create_clearance_data_with_widening(curve_radius_m)
        hypotenuse == Hypotenuse(cant_mm)
        rotated ==
            IF cant_mm = 0 THEN data
            ELSE [i \in 0..(NumSamples - 1) |->
                     <<TimesCosOver(data[i][1], hypotenuse)
                           - TimesSinOver(data[i][2], cant_mm, hypotenuse),
                       TimesSinOver(data[i][1], cant_mm, hypotenuse)
                           + TimesCosOver(data[i][2], hypotenuse)>>]
    IN  WSqrt(MinSquaredDistance(rail[1], rail[2], rotated, 0, NumSamples - 1))

\* the smallest math.sqrt(dx**2 + dy**2) over the samples; the square root
\* is monotone, so it is taken once, of the smallest dx**2 + dy**2
calculate_ag2_excel_method(measurement_distance, measurement_height, cant_mm, curve_radius_m) ==
    LET rail == coordinate_transform_to_rail_center(
                    measurement_distance, measurement_height, cant_mm)
        data == create_clearance_data_with_widening(curve_radius_m)
    IN  WSqrt(MinSquaredDistance(rail[1], rail[2], data, 0, NumSamples - 1))

\* the widening computed in _is_point_inside_building_clearance
inside_widening(curve_radius_m) ==
    IF curve_radius_m > 0 THEN RoundDiv(23000 * Scale, curve_radius_m) ELSE 0

\* clearance_limit of _is_point_inside_building_clearance
inside_clearance_limit(y) ==
    IF y < 25 * Scale THEN 1225 * Scale
    ELSE IF y < 375 * Scale THEN Ramp(y)
    ELSE IF y < 920 * Scale THEN 1575 * Scale
    ELSE IF y < 3156 * Scale THEN 1900 * Scale
    ELSE IF y < 3823 * Scale THEN ArcHalfWidth(2150, 2150, y)
    ELSE IF y < 5190 * Scale THEN 1350 * Scale
    ELSE ArcHalfWidth(1800, 4000, y)

\* the height range check at the head of _is_point_inside_building_clearance
inside_height_out_of_range(y) == y < 0 \/ y > TopHeight * Scale

\* the inside test with the boundary of the envelope counted as inside
is_point_inside_or_on_building_clearance(x, y, curve_radius_m) ==
    IF inside_height_out_of_range(y) THEN FALSE
    ELSE Abs(x) <= inside_clearance_limit(y) + inside_widening(curve_radius_m)

is_point_inside_building_clearance(x, y, curve_radius_m) ==
    IF inside_height_out_of_range(y) THEN FALSE
    ELSE Abs(x) < inside_clearance_limit(y) + inside_widening(curve_radius_m)

\* the correction with the upper tier starting above 13 instead of at 13
corrected_margin_of_13_in_sqrt_tier(ag2) ==
    IF ag2 < 5 * Scale THEN 0
    ELSE IF ag2 <= 13 * Scale THEN WSqrt(WSub(Sq(ag2), <<0, 25 * Scale * Scale>>))
    ELSE ag2

\* the correction without the dead zone: the two lower tiers merged
corrected_margin_of_no_dead_zone(ag2) ==
    IF ag2 < 13 * Scale THEN
        (IF ag2 < 5 * Scale THEN ag2
         ELSE WSqrt(WSub(Sq(ag2), <<0, 25 * Scale * Scale>>)))
    ELSE ag2

\* the three tiers of the Excel B24 correction
corrected_margin_of(ag2) ==
    IF ag2 < 5 * Scale THEN 0
    ELSE IF ag2 < 13 * Scale THEN WSqrt(WSub(Sq(ag2), <<0, 25 * Scale * Scale>>))
    ELSE ag2

\* the verdict as it was before the inside test was added to it
is_interference_of_without_inside(is_inside_clearance, ag2, corrected_margin) ==
    ag2 < 5 * Scale \/ corrected_margin <= 0

is_interference_of(is_inside_clearance, ag2, corrected_margin) ==
    is_inside_clearance \/ ag2 < 5 * Scale \/ corrected_margin <= 0

\* the rounding unified into rounding up
final_margin_of_always_ceil(is_interference, corrected_margin) ==
    Ceil(corrected_margin)

\* the rounding unified into rounding down
final_margin_of_always_floor(is_interference, corrected_margin) ==
    Floor(corrected_margin)

final_margin_of(is_interference, corrected_margin) ==
    IF is_interference THEN Ceil(corrected_margin) ELSE Floor(corrected_margin)

calculate_clearance_margin_excel_method(measurement_distance, measurement_height, cant_mm, curve_radius_m) ==
    LET ag2 == calculate_ag2_excel_method(
                   measurement_distance, measurement_height, cant_mm, curve_radius_m)
        rail == coordinate_transform_to_rail_center(
                    measurement_distance, measurement_height, cant_mm)
        corrected_margin == corrected_margin_of(ag2)
        is_inside_clearance ==
            is_point_inside_building_clearance(rail[1], rail[2], curve_radius_m)
        is_interference == is_interference_of(is_inside_clearance, ag2, corrected_margin)
    IN  [ag2 |-> ag2,
         corrected_margin |-> corrected_margin,
         final_margin |-> final_margin_of(is_interference, corrected_margin),
         is_interference |-> is_interference,
         rail_center_coords |-> rail,
         is_inside_clearance |-> is_inside_clearance]

calculate_all_excel_method(measurement_distance, measurement_height, cant_mm, curve_radius_m) ==
    LET required_clearance == calculate_required_clearance_excel_method(
            measurement_distance, measurement_height, cant_mm, curve_radius_m)
        margin_result == calculate_clearance_margin_excel_method(
            measurement_distance, measurement_height, cant_mm, curve_radius_m)
    IN  [measurement_distance |-> measurement_distance,
         measurement_height |-> measurement_height,
         cant_mm |-> cant_mm,
         curve_radius_m |-> curve_radius_m,
         required_clearance |-> required_clearance,
         clearance_margin |-> margin_result.final_margin,
         ag2_distance |-> margin_result.ag2,
         is_interference |-> margin_result.is_interference,
         details |-> margin_result]

----------------------------------------------------------------------------
(* The queries.                                                            *)

\* the value of a variable that holds no record yet
NoResult == [none |-> TRUE]

\* bounds of the enumerated inputs
MaxDistanceSteps == 3
MaxProbeHeight == 5900

\* offsets (mm): a coarse grid, the offsets around the foot of the envelope
\* and the offsets of the regression scenarios
Distances ==
    {700 * k : k \in 0..MaxDistanceSteps}
        \cup {1222, 1225, 1228, 1230, 1238, 1300, 1310, 1950, 2110}

\* measured heights (mm)
Heights == {-10, 0, 10, 100, 360, 3150, 3560, 5700, 5750}

Cants == {0, 100, 105}

\* curve radii (m): straight track, a curve, and a negative entry
Radii == {0, 160, -160}

Measurements ==
    [measurement_distance : {d * Scale : d \in Distances},
     measurement_height : {h * Scale : h \in Heights},
     cant_mm : Cants,
     curve_radius_m : Radii]

NoHeight == -1

\* a measurement that is never evaluated
NoMeasurement ==
    [measurement_distance |-> 0, measurement_height |-> 0,
     cant_mm |-> 0, curve_radius_m |-> 0]

\* a radius that is never handed to the widening computations
NoRadius == 0

\* the variables of the application when no application is running
NoApplication ==
    /\ distance_var = ""
    /\ height_var = ""
    /\ cant_var = ""
    /\ radius_var = ""
    /\ calculation_result = NoResult
    /\ is_calculated = FALSE
    /\ base_clearance = <<>>
    /\ drawn_clearance = <<>>
    /\ result_text = <<>>
    /\ error_dialog = FALSE
    /\ excel_calculator = NoResult
    /\ clearance_model = NoResult

\* the variables of the transformations when none is asked
NoEnvelope ==
    /\ caller_points = <<>>
    /\ transform_input = NoResult
    /\ transformed = NoResult

\* the variables of the keypad when no keypad was opened
NoKeypad ==
    /\ entry_widget = <<>>
    /\ allow_negative = FALSE
    /\ display_var = <<>>
    /\ keypad_open = FALSE
    /\ keypad_error = FALSE

Init ==
    /\ measurement \in Measurements
    /\ result = NoResult
    /\ height = NoHeight
    /\ clearances = NoResult
    /\ curve_radius = NoRadius
    /\ corrections = NoResult
    /\ NoApplication
    /\ NoEnvelope
    /\ NoKeypad

\* one call of calculate_all_excel_method
Evaluate ==
    /\ result = NoResult
    /\ result' = calculate_all_excel_method(
                     measurement.measurement_distance, measurement.measurement_height,
                     measurement.cant_mm, measurement.curve_radius_m)
    /\ UNCHANGED <<measurement, height, clearances, curve_radius, corrections, appVars, envelopeVars, keypadVars>>

Next == Evaluate

Spec == Init /\ [][Next]_vars

Evaluated == result # NoResult

----------------------------------------------------------------------------
(* The copies of the base clearance rule, each applied to one height.      *)

\* the boundaries of the segments of the rule (mm)
Boundaries == {25, 375, 920, 3156, 3823, 5190}

\* every whole millimetre, and the last representable height below each
\* boundary
ProbeHeights ==
    {h * Scale : h \in 0..MaxProbeHeight} \cup {b * Scale - 1 : b \in Boundaries}

\* the answer of a copy that is not run for the height
NotRun == -1

InitHeights ==
    /\ measurement = NoMeasurement
    /\ result = NoResult
    /\ height \in ProbeHeights
    /\ clearances = NoResult
    /\ curve_radius = NoRadius
    /\ corrections = NoResult
    /\ NoApplication
    /\ NoEnvelope
    /\ NoKeypad

\* calculate_base_clearance_at_height takes any height; the loop of
\* _create_clearance_data_with_widening only meets heights of [0, 5700], and
\* _is_point_inside_building_clearance leaves before its copy of the rule
\* when the height is out of range
ApplyRule ==
    /\ clearances = NoResult
    /\ clearances' =
          [height_function |-> calculate_base_clearance_at_height(height),
           reference_set |->
               IF height <= TopHeight * Scale
               THEN clearance_data_base_clearance(height) ELSE NotRun,
           inside_test |->
               IF inside_height_out_of_range(height) THEN NotRun
               ELSE inside_clearance_limit(height)]
    /\ UNCHANGED <<measurement, result, height, curve_radius, corrections, appVars, envelopeVars, keypadVars>>

NextHeights == ApplyRule

SpecHeights == InitHeights /\ [][NextHeights]_vars

Applied == clearances # NoResult

----------------------------------------------------------------------------
(* BuildingLimitCalculator and BuildingLimitCalculatorFixed: the widening  *)
(* of the general limit and of the upper limit.  A quotient is kept as the *)
(* exact fraction <<numerator, denominator>>; doubling a float is exact,   *)
(* so two of these fractions are equal exactly when the floats of the      *)
(* program are.                                                            *)

FractionEqual(p, q) == p[1] * q[2] = q[1] * p[2]

Twice(p) == <<2 * p[1], p[2]>>

calculate_expansion_width(radius) ==
    IF radius = 0 THEN <<0, 1>> ELSE <<23100, radius>>

\* the upper widening with the constant 11500
calculate_upper_expansion_width_11500(radius) ==
    IF radius = 0 THEN <<0, 1>> ELSE <<11500, radius>>

calculate_upper_expansion_width(radius) ==
    IF radius = 0 THEN <<0, 1>> ELSE <<11550, radius>>

fixed_calculate_expansion_width(radius) ==
    IF radius = 0 \/ radius > 10000 THEN <<0, 1>> ELSE <<23100, radius>>

fixed_calculate_upper_expansion_width(radius) ==
    IF radius = 0 \/ radius > 10000 THEN <<0, 1>> ELSE <<11550, radius>>

\* Angles are whole microradians.
Micro == 1000000
HalfPi == 1570796
TwoPi == 6283185

\* math.atan of the quotient numerator / denominator, by the series
\* x - x^3/3 + x^5/5, right to a microradian for quotients up to 1/8
atan(numerator, denominator) ==
    LET x == (Abs(numerator) * Micro) \div denominator
        square == ((x \div 100) * (x \div 100)) \div 100
        cube == (x * square) \div Micro
        fifth == (cube * square) \div Micro
    IN  Sign(numerator) * (x - cube \div 3 + fifth \div 5)

\* the cant angle of BuildingLimitCalculator
calculate_cant_angle(cant) ==
    IF cant < 0 THEN atan(cant, rail_gauge) + TwoPi ELSE atan(cant, rail_gauge)

\* the cant angle of BuildingLimitCalculatorFixed
fixed_calculate_cant_angle(cant) ==
    IF cant < 0 THEN atan(cant, rail_gauge) + TwoPi ELSE atan(cant, rail_gauge)

\* the outline of BuildingLimitCalculatorFixed for direct current and
\* non-electrified lines (units)
basic_coordinates ==
    <<<<-122500, 0>>, <<-157500, 35000>>, <<-157500, 92000>>, <<-190000, 92000>>,
      <<-190000, 190000>>, <<-190000, 215000>>, <<-136650, 315600>>,
      <<-136650, 519060>>, <<-104150, 519060>>, <<-69150, 519060>>,
      <<-37500, 519060>>, <<-2500, 519060>>, <<0, 519060>>, <<2500, 519060>>,
      <<37500, 519060>>, <<69150, 519060>>, <<104150, 519060>>,
      <<136650, 519060>>, <<136650, 315600>>, <<190000, 215000>>,
      <<190000, 190000>>, <<190000, 92000>>, <<157500, 92000>>,
      <<157500, 35000>>, <<122500, 0>>, <<0, 0>>, <<-122500, 0>>>>

\* the slack of BuildingLimitCalculatorFixed (mm)
fixed_calculate_slack(radius) ==
    IF radius < 200 THEN 20
    ELSE IF radius < 240 THEN 15
    ELSE IF radius < 320 THEN 10
    ELSE IF radius <= 440 THEN 5
    ELSE 0

\* the displacement by the cant; the full turn calculate_cant_angle adds for
\* a negative cant leaves the sine and the cosine as they are
fixed_calculate_displacement(x, y, cant) ==
    IF cant = 0 THEN <<x, y>>
    ELSE <<x - (y - TimesCos(y, cant)),
           y - (TimesCos(x, cant) - TimesSin(y, cant))>>

\* the quotient of the widening in units
fixed_expansion_width_units(radius) ==
    LET width == fixed_calculate_expansion_width(radius)
    IN  Sign(width[1]) * Sign(width[2]) * RoundDiv(Abs(width[1]) * Scale, Abs(width[2]))

\* one vertex of calculate_transformed_coordinates
fixed_transformed_vertex(vertex, expansion_width, slack, cant) ==
    LET x == vertex[1]
        expanded_x == IF x > 0 THEN x + expansion_width
                      ELSE IF x < 0 THEN x - expansion_width
                      ELSE x
        displaced == fixed_calculate_displacement(expanded_x, vertex[2], cant)
        final_x == IF x > 0 THEN displaced[1] + (slack * Scale) \div 2
                   ELSE IF x < 0 THEN displaced[1] - (slack * Scale) \div 2
                   ELSE displaced[1]
    IN  <<final_x, displaced[2]>>

\* calculate_transformed_coordinates: the basic and the transformed outline
fixed_calculate_transformed_coordinates(radius, cant) ==
    LET expansion_width == fixed_expansion_width_units(radius)
        slack == fixed_calculate_slack(radius)
    IN  <<basic_coordinates,
          [i \in 1..Len(basic_coordinates) |->
              fixed_transformed_vertex(basic_coordinates[i], expansion_width, slack, cant)]>>

\* the cant angle of coordinate_transform_to_rail_center of the V22 engine
cant_angle(cant_mm) == atan(cant_mm, rail_gauge)

----------------------------------------------------------------------------
(* The widening and cant computations, each applied to one radius.         *)

MaxProbeRadius == 300

\* curve radii (m): every whole radius around zero, and the two radii around
\* the cut-off of BuildingLimitCalculatorFixed
ProbeRadii == (-MaxProbeRadius..MaxProbeRadius) \cup {10000, 10001}

\* heights and offsets (units) handed to the cant computations
CorrectionHeights == {0, 1000 * Scale, 3560 * Scale}
CorrectionDistances == {-1950 * Scale, 0, 1950 * Scale}

InitCorrections ==
    /\ measurement = NoMeasurement
    /\ result = NoResult
    /\ height = NoHeight
    /\ clearances = NoResult
    /\ curve_radius \in ProbeRadii
    /\ corrections = NoResult
    /\ NoApplication
    /\ NoEnvelope
    /\ NoKeypad

\* the four computations of the widening in the V22 engine
ApplyWidening ==
    /\ corrections = NoResult
    /\ corrections' =
          [kind |-> "widening",
           model |-> calculate_curve_widening(curve_radius),
           reference_set |-> clearance_data_widening(curve_radius),
           required_clearance |-> required_clearance_widening(curve_radius),
           inside_test |-> inside_widening(curve_radius)]
    /\ UNCHANGED <<measurement, result, height, clearances, curve_radius, appVars, envelopeVars, keypadVars>>

\* the general and the upper widening of the two BuildingLimitCalculators
ApplyExpansionWidth ==
    /\ corrections = NoResult
    /\ corrections' =
          [kind |-> "expansion",
           general |-> calculate_expansion_width(curve_radius),
           upper |-> calculate_upper_expansion_width(curve_radius),
           fixed_general |-> fixed_calculate_expansion_width(curve_radius),
           fixed_upper |-> fixed_calculate_upper_expansion_width(curve_radius)]
    /\ UNCHANGED <<measurement, result, height, clearances, curve_radius, appVars, envelopeVars, keypadVars>>

\* the cant computations: calculate_cant_correction, through
\* calculate_required_clearance, and coordinate_transform_to_rail_center
ApplyCant ==
    /\ corrections = NoResult
    /\ \E x \in CorrectionDistances, h \in CorrectionHeights, cant_mm \in Cants :
          corrections' =
              [kind |-> "cant",
               measurement_distance |-> x,
               measurement_height |-> h,
               cant_mm |-> cant_mm,
               cant_correction |-> calculate_cant_correction(h, cant_mm),
               required_clearance |->
                   calculate_required_clearance(h, cant_mm, curve_radius),
               rail_center_coords |->
                   coordinate_transform_to_rail_center(x, h, cant_mm)]
    /\ UNCHANGED <<measurement, result, height, clearances, curve_radius, appVars, envelopeVars, keypadVars>>

\* cants (mm) handed to the cant angle computations
AngleCants == {-105, -50, -1, 0, 1, 50, 105}

\* the cant angle of the two BuildingLimitCalculators and of the V22 engine
ApplyCantAngle ==
    /\ corrections = NoResult
    /\ \E cant \in AngleCants :
          corrections' =
              [kind |-> "angle",
               cant |-> cant,
               general |-> calculate_cant_angle(cant),
               fixed |-> fixed_calculate_cant_angle(cant),
               rail_center |-> cant_angle(cant)]
    /\ UNCHANGED <<measurement, result, height, clearances, curve_radius, appVars, envelopeVars, keypadVars>>

\* calculate_transformed_coordinates of BuildingLimitCalculatorFixed
ApplyTransformedCoordinates ==
    /\ corrections = NoResult
    /\ \E cant \in Cants :
          LET returned == fixed_calculate_transformed_coordinates(curve_radius, cant)
          IN  corrections' =
                  [kind |-> "transformed",
                   radius |-> curve_radius,
                   cant |-> cant,
                   basic_coords |-> returned[1],
                   transformed_coords |-> returned[2]]
    /\ UNCHANGED <<measurement, result, height, clearances, curve_radius, appVars, envelopeVars, keypadVars>>

NextCorrections ==
    \/ ApplyWidening
    \/ ApplyExpansionWidth
    \/ ApplyCant
    \/ ApplyCantAngle
    \/ ApplyTransformedCoordinates

SpecCorrections == InitCorrections /\ [][NextCorrections]_vars

Widened == corrections # NoResult /\ corrections.kind = "widening"

Expanded == corrections # NoResult /\ corrections.kind = "expansion"

CantApplied == corrections # NoResult /\ corrections.kind = "cant"

AngleComputed == corrections # NoResult /\ corrections.kind = "angle"

CoordinatesTransformed ==
    corrections # NoResult /\ corrections.kind = "transformed"

----------------------------------------------------------------------------
(* ClearanceAppV22UI: the entries, the calculate and reset buttons.        *)

\* the texts typed into the entries
DistanceTexts == {"0", "1950", "-1950", "abc"}
HeightTexts == {"0", "3560"}
CantTexts == {"0", "100"}
RadiusTexts == {"0", "160", "-160"}

NumberTexts == {"0", "100", "160", "-160", "1950", "-1950", "3560"}

\* float(text) of a text that float accepts
float_of(text) ==
    CASE text = "0" -> 0
      [] text = "100" -> 100
      [] text = "160" -> 160
      [] text = "-160" -> -160
      [] text = "1950" -> 1950
      [] text = "-1950" -> -1950
      [] text = "3560" -> 3560

\* float(text) raises ValueError
raises_ValueError(text) == text \notin NumberTexts

\* the list handed to transform_clearance_excel_display_method with the
\* transformed vertices written back into it
points_written_by_transform_clearance(points, cant_mm, curve_radius_m, measurement_distance) ==
    transform_clearance_excel_display_method(
        points, cant_mm, curve_radius_m, measurement_distance)

\* the list handed to transform_clearance_excel_display_method as the call
\* leaves it: the loop reads its vertices and appends to a list of its own
points_after_transform_clearance(points, cant_mm, curve_radius_m, measurement_distance) ==
    points

\* the numbers the entries can hold: offsets and heights in units
EntryDistances == {float_of(text) * Scale : text \in DistanceTexts \cap NumberTexts}
EntryHeights == {float_of(text) * Scale : text \in HeightTexts \cap NumberTexts}
EntryCants == {float_of(text) : text \in CantTexts \cap NumberTexts}
EntryRadii == {float_of(text) : text \in RadiusTexts \cap NumberTexts}

\* calculate_all_excel_method for every query the entries can ask, evaluated
\* once
calculate_all_of_entries ==
    [distance \in EntryDistances, h \in EntryHeights,
     cant_mm \in EntryCants, curve_radius_m \in EntryRadii |->
        calculate_all_excel_method(distance, h, cant_mm, curve_radius_m)]

\* the offset of the entry handed to the engine as it is
evaluated_distance_signed(distance) == distance

\* the offset calculate hands to the engine: abs(distance)
evaluated_distance(distance) == Abs(distance)

\* the result calculate stores for the numbers of the four entries
stored_by_calculate(distance, h, cant, radius) ==
    calculate_all_of_entries[evaluated_distance(distance), h, cant, radius]

\* transform_clearance_excel_display_method of the outline built at
\* construction for every query the entries can ask, evaluated once
transformed_outline_of_entries ==
    [cant_mm \in EntryCants, curve_radius_m \in EntryRadii,
     distance \in EntryDistances |->
        transform_clearance_excel_display_method(
            create_accurate_clearance, cant_mm, curve_radius_m, distance)]

InitApp ==
    /\ measurement = NoMeasurement
    /\ result = NoResult
    /\ height = NoHeight
    /\ clearances = NoResult
    /\ curve_radius = NoRadius
    /\ corrections = NoResult
    /\ excel_calculator = [rail_gauge |-> rail_gauge]
    /\ clearance_model = [rail_gauge |-> rail_gauge]
    /\ base_clearance = create_accurate_clearance
    /\ calculation_result = NoResult
    /\ is_calculated = FALSE
    /\ distance_var = "0"
    /\ height_var = "0"
    /\ cant_var = "0"
    /\ radius_var = "0"
    /\ drawn_clearance = base_clearance
    /\ result_text = <<>>
    /\ error_dialog = FALSE
    /\ NoEnvelope
    /\ NoKeypad

\* the user replaces the text of one entry
EditEntry ==
    /\ \/ \E text \in DistanceTexts :
              /\ distance_var' = text
              /\ UNCHANGED <<height_var, cant_var, radius_var>>
       \/ \E text \in HeightTexts :
              /\ height_var' = text
              /\ UNCHANGED <<distance_var, cant_var, radius_var>>
       \/ \E text \in CantTexts :
              /\ cant_var' = text
              /\ UNCHANGED <<distance_var, height_var, radius_var>>
       \/ \E text \in RadiusTexts :
              /\ radius_var' = text
              /\ UNCHANGED <<distance_var, height_var, cant_var>>
    /\ error_dialog' = FALSE
    /\ UNCHANGED <<calculation_result, is_calculated, base_clearance,
                   drawn_clearance, result_text, excel_calculator,
                   clearance_model>>
    /\ UNCHANGED <<measurement, result, height, clearances, curve_radius, corrections, envelopeVars, keypadVars>>

\* the lines display_results writes: the judgement, the required clearance
\* and the margin formatted to whole millimetres, and for a radius > 0 the
\* radius and the widening formatted to a tenth
display_results_text(shown) ==
    <<shown.is_interference,
      RoundDiv(shown.required_clearance, Scale),
      shown.clearance_margin>>
      \o (IF shown.curve_radius_m > 0
          THEN <<shown.curve_radius_m, RoundDiv(23000 * 10, shown.curve_radius_m)>>
          ELSE <<>>)

\* the result panel after display_results: it returns at once when no
\* result is stored
display_results(text, stored) ==
    IF stored = NoResult THEN text ELSE display_results_text(stored)

\* the canvas after update_display, which would draw the outline "outline":
\* it returns at once when is_calculated is False
update_display(drawn, calculated, outline) ==
    IF ~calculated THEN drawn ELSE outline

\* calculate, with update_display and display_results inside it.
\* update_display transforms self.base_clearance with the cant and radius
\* of the result and the offset of the entry
calculate ==
    /\ IF \/ raises_ValueError(height_var)
          \/ raises_ValueError(distance_var)
          \/ raises_ValueError(cant_var)
          \/ raises_ValueError(radius_var)
       THEN /\ error_dialog' = TRUE
            /\ is_calculated' = FALSE
            /\ UNCHANGED <<calculation_result, base_clearance, drawn_clearance,
                           result_text>>
       ELSE LET distance == float_of(distance_var) * Scale
                cant == float_of(cant_var)
                radius == float_of(radius_var)
            IN  /\ calculation_result' =
                       stored_by_calculate(
                           distance, float_of(height_var) * Scale, cant, radius)
                /\ is_calculated' = TRUE
                /\ drawn_clearance' =
                       update_display(
                           drawn_clearance, is_calculated',
                           IF base_clearance = create_accurate_clearance
                           THEN transformed_outline_of_entries[cant, radius, distance]
                           ELSE transform_clearance_excel_display_method(
                                    base_clearance, cant, radius, distance))
                /\ result_text' = display_results(result_text, calculation_result')
                /\ base_clearance' =
                       points_after_transform_clearance(
                           base_clearance, cant, radius, distance)
                /\ error_dialog' = FALSE
    /\ UNCHANGED <<distance_var, height_var, cant_var, radius_var,
                   excel_calculator, clearance_model>>
    /\ UNCHANGED <<measurement, result, height, clearances, curve_radius, corrections, envelopeVars, keypadVars>>

\* reset_values leaving the stored result in place
reset_values_keeping_result ==
    /\ distance_var' = "0"
    /\ height_var' = "0"
    /\ cant_var' = "0"
    /\ radius_var' = "0"
    /\ result_text' = <<>>
    /\ UNCHANGED calculation_result
    /\ is_calculated' = FALSE
    /\ drawn_clearance' = base_clearance
    /\ error_dialog' = FALSE
    /\ UNCHANGED <<base_clearance, excel_calculator, clearance_model>>
    /\ UNCHANGED <<measurement, result, height, clearances, curve_radius, corrections, envelopeVars, keypadVars>>

\* reset_values, with setup_initial_graph inside it
reset_values ==
    /\ distance_var' = "0"
    /\ height_var' = "0"
    /\ cant_var' = "0"
    /\ radius_var' = "0"
    /\ result_text' = <<>>
    /\ calculation_result' = NoResult
    /\ is_calculated' = FALSE
    /\ drawn_clearance' = base_clearance
    /\ error_dialog' = FALSE
    /\ UNCHANGED <<base_clearance, excel_calculator, clearance_model>>
    /\ UNCHANGED <<measurement, result, height, clearances, curve_radius, corrections, envelopeVars, keypadVars>>

NextApp == EditEntry \/ calculate \/ reset_values

SpecApp == InitApp /\ [][NextApp]_vars

----------------------------------------------------------------------------
(* The envelope transformations, each applied once to the outline of       *)
(* create_accurate_clearance.                                              *)

EnvelopeCants == {0, 100, -50}
EnvelopeRadii == {0, 160, 300, -160}
EnvelopeDistances == {-1950 * Scale, 0, 700 * Scale, 1950 * Scale}

TransformInputs ==
    [cant_mm : EnvelopeCants,
     curve_radius_m : EnvelopeRadii,
     measurement_distance : EnvelopeDistances]

InitEnvelope ==
    /\ measurement = NoMeasurement
    /\ result = NoResult
    /\ height = NoHeight
    /\ clearances = NoResult
    /\ curve_radius = NoRadius
    /\ corrections = NoResult
    /\ NoApplication
    /\ caller_points = create_accurate_clearance
    /\ transform_input \in TransformInputs
    /\ transformed = NoResult
    /\ NoKeypad

\* one call of transform_clearance_excel_display_method of V22
TransformExcelDisplay ==
    /\ transformed = NoResult
    /\ transformed' =
          [by |-> "transform_clearance_excel_display_method",
           outline |->
               transform_clearance_excel_display_method(
                   caller_points, transform_input.cant_mm, transform_input.curve_radius_m,
                   transform_input.measurement_distance)]
    /\ caller_points' =
          points_after_transform_clearance(
              caller_points, transform_input.cant_mm, transform_input.curve_radius_m,
              transform_input.measurement_distance)
    /\ UNCHANGED transform_input
    /\ UNCHANGED <<measurement, result, height, clearances, curve_radius, corrections, appVars, keypadVars>>

\* one call of transform_clearance of V10, which works on an array copied
\* from the list and takes no offset
TransformV10 ==
    /\ transformed = NoResult
    /\ transformed' =
          [by |-> "transform_clearance",
           outline |->
               transform_clearance(
                   caller_points, transform_input.cant_mm, transform_input.curve_radius_m)]
    /\ UNCHANGED <<caller_points, transform_input>>
    /\ UNCHANGED <<measurement, result, height, clearances, curve_radius, corrections, appVars, keypadVars>>

NextEnvelope == TransformExcelDisplay \/ TransformV10

SpecEnvelope == InitEnvelope /\ [][NextEnvelope]_vars

TransformedByV22 ==
    /\ transformed # NoResult
    /\ transformed.by = "transform_clearance_excel_display_method"

TransformedByV10 ==
    /\ transformed # NoResult
    /\ transformed.by = "transform_clearance"

----------------------------------------------------------------------------
(* Properties of calculate_clearance_margin_excel_method.                  *)

\* C1: the final margin is the ceiling of the corrected margin when the
\* query is classified as interference and its floor when it is classified
\* as clear.
C1_DirectionalRounding ==
    Evaluated =>
        LET d == result.details
            millimetre == d.final_margin * Scale
        IN  /\ d.is_interference =>
                  /\ millimetre >= d.corrected_margin
                  /\ millimetre - Scale < d.corrected_margin
            /\ ~d.is_interference =>
                  /\ millimetre <= d.corrected_margin
                  /\ millimetre + Scale > d.corrected_margin
            /\ result.clearance_margin = d.final_margin

\* an interference whose corrected margin is not a whole number of
\* millimetres, reported one above its floor
C1_Witness ==
    /\ Evaluated
    /\ result.details.is_interference
    /\ result.details.corrected_margin % Scale # 0
    /\ result.details.final_margin = (result.details.corrected_margin \div Scale) + 1

\* the same for a clear query, reported at its floor
C1_WitnessClear ==
    /\ Evaluated
    /\ ~result.details.is_interference
    /\ result.details.corrected_margin % Scale # 0
    /\ result.details.final_margin = result.details.corrected_margin \div Scale

\* C2: a query is an interference exactly when the point is inside the
\* envelope, or ag2 < 5, or the corrected margin is <= 0; so a point outside
\* the envelope with ag2 > 5 is clear and a point inside is an interference.
C2_InterferenceRule ==
    Evaluated =>
        LET d == result.details
        IN  /\ d.is_interference <=>
                  (d.is_inside_clearance \/ d.ag2 < 5 * Scale \/ d.corrected_margin <= 0)
            /\ (~d.is_inside_clearance /\ d.ag2 > 5 * Scale) => ~d.is_interference
            /\ d.is_inside_clearance => d.is_interference
            /\ result.is_interference = d.is_interference

\* a point inside the envelope and far from every sample, reported as an
\* interference
C2_Witness ==
    /\ Evaluated
    /\ result.details.is_inside_clearance
    /\ result.details.ag2 >= 13 * Scale
    /\ result.is_interference

\* a point outside the envelope with ag2 > 5, reported as clear
C2_WitnessClear ==
    /\ Evaluated
    /\ ~result.details.is_inside_clearance
    /\ result.details.ag2 > 5 * Scale
    /\ ~result.is_interference

\* C3: the corrected margin is 0 for ag2 < 5, sqrt(ag2^2 - 25) for
\* 5 <= ag2 < 13 and ag2 for ag2 >= 13; ag2 = 5 gives 0 through the square
\* root and ag2 = 13 gives 13.
C3_ThreeTiers ==
    Evaluated =>
        LET ag2 == result.details.ag2
            corrected == result.details.corrected_margin
            square == ag2 * ag2 - 25 * Scale * Scale
        IN  /\ ag2 < 5 * Scale => corrected = 0
            /\ (5 * Scale <= ag2 /\ ag2 < 13 * Scale) =>
                  /\ corrected >= 0
                  /\ corrected * corrected <= square
                  /\ square < (corrected + 1) * (corrected + 1)
            /\ ag2 >= 13 * Scale => corrected = ag2
            /\ ag2 = 5 * Scale => corrected = 0
            /\ ag2 = 13 * Scale => corrected = 13 * Scale

\* a query whose nearest sample is exactly 13 mm away
C3_Witness ==
    /\ Evaluated
    /\ result.details.ag2 = 13 * Scale
    /\ result.details.corrected_margin = 13 * Scale

\* a query of the middle tier, strictly between its ends
C3_WitnessMiddle ==
    /\ Evaluated
    /\ result.details.ag2 > 5 * Scale
    /\ result.details.ag2 < 13 * Scale
    /\ result.details.corrected_margin > 0
    /\ result.details.corrected_margin < result.details.ag2

\* a query whose nearest sample is exactly 5 mm away
C3_WitnessFive ==
    /\ Evaluated
    /\ result.details.ag2 = 5 * Scale
    /\ result.details.corrected_margin = 0

\* C4: a query with ag2 < 5 has a final margin of 0 and is an interference,
\* inside the envelope or not.
C4_DeadZone ==
    (Evaluated /\ result.ag2_distance < 5 * Scale) =>
        /\ result.clearance_margin = 0
        /\ result.is_interference

\* a point outside the envelope, less than 5 mm and more than 0 mm from the
\* nearest sample
C4_Witness ==
    /\ Evaluated
    /\ result.ag2_distance > 0
    /\ result.ag2_distance < 5 * Scale
    /\ ~result.details.is_inside_clearance
    /\ result.clearance_margin = 0
    /\ result.is_interference

\* the same for a point inside the envelope
C4_WitnessInside ==
    /\ Evaluated
    /\ result.ag2_distance > 0
    /\ result.ag2_distance < 5 * Scale
    /\ result.details.is_inside_clearance
    /\ result.clearance_margin = 0

----------------------------------------------------------------------------
(* The regression scenarios.                                               *)

IsQuery(distance, h, cant, radius) ==
    /\ measurement.measurement_distance = distance * Scale
    /\ measurement.measurement_height = h * Scale
    /\ measurement.cant_mm = cant
    /\ measurement.curve_radius_m = radius

\* C5: offset 1950 mm, height 3560 mm, cant 100 mm, radius 0 m is reported as
\* an interference of exactly 15 mm.
C5_Regression1950 ==
    (Evaluated /\ IsQuery(1950, 3560, 100, 0)) =>
        /\ result.is_interference
        /\ result.clearance_margin = 15

\* the scenario has been evaluated, with a nearest distance between 14 and
\* 15 mm
C5_Witness ==
    /\ Evaluated
    /\ IsQuery(1950, 3560, 100, 0)
    /\ result.ag2_distance > 14 * Scale
    /\ result.ag2_distance < 15 * Scale
    /\ result.clearance_margin = 15

\* C6: offset 2110 mm, height 3150 mm, cant 105 mm, radius 160 m is reported
\* as an interference.
C6_Regression2110 ==
    (Evaluated /\ IsQuery(2110, 3150, 105, 160)) => result.is_interference

\* the scenario has been evaluated; its point lies inside the widened
\* envelope
C6_Witness ==
    /\ Evaluated
    /\ IsQuery(2110, 3150, 105, 160)
    /\ result.details.is_inside_clearance
    /\ result.is_interference

----------------------------------------------------------------------------
(* The inside test.                                                        *)

\* widening(radius) as the rule states it: 0 for radius <= 0, 23000 / radius
\* otherwise
WideningByRule(radius) ==
    IF radius <= 0 THEN 0 ELSE RoundDiv(23000 * Scale, radius)

\* abs(x) < base_clearance_at_height(y) + widening(radius) for the
\* rail-centre point of the query
InsideByFormula ==
    LET rail == result.details.rail_center_coords
    IN  Abs(rail[1]) < calculate_base_clearance_at_height(rail[2])
                           + WideningByRule(measurement.curve_radius_m)

\* C7 as claimed, on the domain of the base clearance (y >= 0): is_inside is
\* true exactly when abs(x) < base_clearance_at_height(y) + widening(radius),
\* for every height y, heights above 5700 mm included.
C7_InsideAtEveryHeight ==
    (Evaluated /\ result.details.rail_center_coords[2] >= 0) =>
        (result.details.is_inside_clearance <=> InsideByFormula)

\* C7 as amended: is_inside is true exactly when 0 <= y <= 5700 and
\* abs(x) < base_clearance_at_height(y) + widening(radius); outside that
\* range of heights the point is never inside.
C7_InsideWithinHeightRange ==
    Evaluated =>
        LET y == result.details.rail_center_coords[2]
        IN  result.details.is_inside_clearance <=>
                (0 <= y /\ y <= 5700 * Scale /\ InsideByFormula)

\* a point above 5700 mm that the formula puts inside and the test outside
C7_Witness ==
    /\ Evaluated
    /\ result.details.rail_center_coords[2] > 5700 * Scale
    /\ InsideByFormula
    /\ ~result.details.is_inside_clearance

\* a point at 5700 mm exactly, which the test still puts inside
C7_WitnessTop ==
    /\ Evaluated
    /\ result.details.rail_center_coords[2] = 5700 * Scale
    /\ result.details.is_inside_clearance

----------------------------------------------------------------------------
(* The base clearance rule.                                                *)

\* v is the square root of radius^2 - (h - centre)^2 cut to the resolution,
\* or 0 when that is negative
IsArcHalfWidth(v, radius, centre, h) ==
    LET r2 == Sq(radius * Scale)
        d2 == Sq(h - centre * Scale)
    IN  IF WLess(r2, d2) THEN v = 0
        ELSE /\ v >= 0
             /\ WLeq(Sq(v), WSub(r2, d2))
             /\ WLess(WSub(r2, d2), Sq(v + 1))

\* C8: for h >= 0 the base clearance is 1225 on [0, 25), linear from 1225 to
\* 1575 on [25, 375), 1575 on [375, 920), 1900 on [920, 3156), the arc of
\* radius 2150 about (0, 2150) on [3156, 3823), 1350 on [3823, 5190) and the
\* arc of radius 1800 about (0, 4000) from 5190 on, the arcs being 0 where the
\* discriminant is negative; the height function, the reference set and the
\* inside test give the same value wherever they are run.
C8_PiecewiseRule ==
    Applied =>
        LET h == height
            v == clearances.height_function
        IN  /\ h < 25 * Scale => v = 1225 * Scale
            /\ (25 * Scale <= h /\ h < 375 * Scale) =>
                  /\ (v - 1225 * Scale) * (375 - 25) = (h - 25 * Scale) * (1575 - 1225)
            /\ (375 * Scale <= h /\ h < 920 * Scale) => v = 1575 * Scale
            /\ (920 * Scale <= h /\ h < 3156 * Scale) => v = 1900 * Scale
            /\ (3156 * Scale <= h /\ h < 3823 * Scale) => IsArcHalfWidth(v, 2150, 2150, h)
            /\ (3823 * Scale <= h /\ h < 5190 * Scale) => v = 1350 * Scale
            /\ 5190 * Scale <= h => IsArcHalfWidth(v, 1800, 4000, h)
            /\ clearances.reference_set = (IF h <= 5700 * Scale THEN v ELSE NotRun)
            /\ clearances.inside_test = (IF h <= 5700 * Scale THEN v ELSE NotRun)

\* a height on the step at 920 mm, where the three copies answer 1900
C8_Witness ==
    /\ Applied
    /\ height = 920 * Scale
    /\ clearances.height_function = 1900 * Scale
    /\ clearances.reference_set = 1900 * Scale
    /\ clearances.inside_test = 1900 * Scale

\* a height on the upper arc where the three copies are run
C8_WitnessArc ==
    /\ Applied
    /\ height > 5190 * Scale
    /\ clearances.height_function > 0
    /\ clearances.height_function < 1350 * Scale
    /\ clearances.reference_set = clearances.height_function
    /\ clearances.inside_test = clearances.height_function

\* a height above the upper arc, where the discriminant is negative
C8_WitnessClamped ==
    /\ Applied
    /\ height > 5800 * Scale
    /\ clearances.height_function = 0

----------------------------------------------------------------------------
(* The required clearance.                                                 *)

\* C9 as claimed, on the domain of the base clearance (rail_point.y >= 0):
\* the required clearance is base_clearance_at_height(rail_point.y)
\* + widening(radius) + height * sin(cant_angle(cant)), the last term taking
\* the measured height.
C9_RequiredClearanceFormula ==
    (Evaluated /\ result.details.rail_center_coords[2] >= 0) =>
        result.required_clearance =
            calculate_base_clearance_at_height(result.details.rail_center_coords[2])
              + WideningByRule(measurement.curve_radius_m)
              + TimesSin(measurement.measurement_height, measurement.cant_mm)

\* C10 as claimed: with cant 0 and radius 0 the required clearance is
\* base_clearance_at_height(height) for every offset and every height >= 0.
C10_RequiredIsBaseOnStraightLevelTrack ==
    (/\ Evaluated
     /\ measurement.cant_mm = 0
     /\ measurement.curve_radius_m = 0
     /\ measurement.measurement_height >= 0) =>
        result.required_clearance =
            calculate_base_clearance_at_height(measurement.measurement_height)

----------------------------------------------------------------------------
(* Properties of the widening and of the cant at zero.                     *)

\* C11: every computation of the widening in the engine (the model's
\* calculate_curve_widening, the reference set, the required clearance and
\* the inside test) gives 0 for a radius <= 0 and 23000 / radius for a
\* radius > 0, and never a negative widening.
C11_WideningEverywhere ==
    Widened =>
        \A place \in {"model", "reference_set", "required_clearance", "inside_test"} :
            /\ corrections[place] = WideningByRule(curve_radius)
            /\ corrections[place] >= 0

----------------------------------------------------------------------------
(* Properties of the application and of the outline.                       *)

\* C12: an evaluation asked with a radius < 0 is rejected with an error and
\* produces no result; the application never holds a result computed for a
\* negative radius.
C12_NegativeRadiusRejected ==
    calculation_result # NoResult => calculation_result.curve_radius_m >= 0

\* C14: with a cant of 0 the cant angle is 0 (its sine is 0 and its cosine
\* 1), the cant correction is 0 and coordinate_transform_to_rail_center
\* returns the measured offset and height unchanged.
C14_ZeroCantIsIdentity ==
    (CantApplied /\ corrections.cant_mm = 0) =>
        /\ TimesSin(corrections.measurement_height, 0) = 0
        /\ TimesCos(corrections.measurement_height, 0) = corrections.measurement_height
        /\ corrections.cant_correction = 0
        /\ corrections.required_clearance =
               calculate_base_clearance_at_height(corrections.measurement_height)
                   + calculate_curve_widening(curve_radius)
        /\ corrections.rail_center_coords =
               <<corrections.measurement_distance, corrections.measurement_height>>

\* a point off the rail centre and above the rail level on level track
C14_Witness ==
    /\ CantApplied
    /\ corrections.cant_mm = 0
    /\ corrections.measurement_distance # 0
    /\ corrections.measurement_height > 0
    /\ corrections.cant_correction = 0
    /\ corrections.rail_center_coords =
           <<corrections.measurement_distance, corrections.measurement_height>>

\* the vertices of an outline, as a set
Vertices(outline) == {outline[i] : i \in 1..Len(outline)}

\* C15: for every vertex (x, y) of the outline built by
\* create_accurate_clearance the mirrored vertex (-x, y) is a vertex too,
\* the bottom corner (1225, 0) included.
C15_MirrorSymmetry ==
    \A vertex \in Vertices(caller_points) :
        <<-vertex[1], vertex[2]>> \in Vertices(caller_points)

\* C16: the outline built by create_accurate_clearance is closed (its last
\* point repeats its first), has at least 3 distinct points and no two
\* consecutive points that coincide.
C16_ClosedWithoutRepeatedPoints ==
    caller_points # <<>> =>
        /\ caller_points[Len(caller_points)] = caller_points[1]
        /\ Cardinality(Vertices(caller_points)) >= 3
        /\ \A i \in 1..(Len(caller_points) - 1) :
              caller_points[i] # caller_points[i + 1]

\* the last representable height below a boundary of the rule
JustBelowBoundary == \E b \in Boundaries : height = b * Scale - 1

\* the value of the rule at the boundary just above the probed height, less
\* the value at the probed height
StepAtBoundary == calculate_base_clearance_at_height(height + 1) - clearances.height_function

\* C17 as stated: at each of the boundaries 25, 375, 920, 3156, 3823 and
\* 5190 mm the value of calculate_base_clearance_at_height just below the
\* boundary and the value at the boundary differ by no more than the slope
\* of the rule allows over one unit of resolution.
C17_ContinuousAtEveryBoundary ==
    (Applied /\ JustBelowBoundary) => Abs(StepAtBoundary) <= 2

\* C17 amended: the rule is continuous at 25 and 375 mm; at 920 mm it steps
\* from 1575 to 1900, and where a straight run meets an arc it jumps by a
\* fraction of a millimetre: up by 0.1 to 0.2 mm at 3156, down by 0.3 to
\* 0.5 mm at 3823 and up by 0.5 to 0.6 mm at 5190.
C17_ContinuousAtSlopeEndsOnly ==
    (Applied /\ JustBelowBoundary) =>
        /\ height + 1 \in {25 * Scale, 375 * Scale} => Abs(StepAtBoundary) <= 2
        /\ height + 1 = 920 * Scale => StepAtBoundary = (1900 - 1575) * Scale
        /\ height + 1 = 3156 * Scale =>
              (10 <= StepAtBoundary /\ StepAtBoundary <= 20)
        /\ height + 1 = 3823 * Scale =>
              (-50 <= StepAtBoundary /\ StepAtBoundary <= -30)
        /\ height + 1 = 5190 * Scale =>
              (50 <= StepAtBoundary /\ StepAtBoundary <= 60)

\* the rule applied just below 920 mm, where it steps by 325 mm
C17_Witness ==
    /\ Applied
    /\ height = 920 * Scale - 1
    /\ clearances.height_function = 1575 * Scale
    /\ StepAtBoundary = 325 * Scale

\* the rule applied just below 375 mm, the upper end of the slope
C17_WitnessContinuous ==
    /\ Applied
    /\ height = 375 * Scale - 1
    /\ Abs(StepAtBoundary) <= 2

C18_WitnessCutOff ==
    /\ Expanded
    /\ curve_radius > 10000
    /\ corrections.fixed_general = <<0, 1>>
    /\ corrections.fixed_upper = <<0, 1>>

\* C19: whatever the application does (entries edited, calculations with
\* their transformation of the outline, resets), the outline built at
\* construction and the fields of the calculator and of the model keep
\* their values, and the transformed outline on the canvas is a list of its
\* own with as many vertices as the base outline, in the same order (each
\* keeps the height side of its base vertex on level track, and the outline
\* stays closed).
C19_BasePolygonReadOnly ==
    /\ base_clearance = create_accurate_clearance
    /\ excel_calculator = [rail_gauge |-> rail_gauge]
    /\ clearance_model = [rail_gauge |-> rail_gauge]
    /\ Len(drawn_clearance) = Len(base_clearance)
    /\ is_calculated =>
          /\ drawn_clearance[Len(drawn_clearance)] = drawn_clearance[1]
          /\ calculation_result.cant_mm = 0 =>
                \A i \in 1..Len(base_clearance) :
                    /\ drawn_clearance[i][2] = base_clearance[i][2]
                    /\ Sign(drawn_clearance[i][1]) = Sign(base_clearance[i][1])

\* the steps of the application leave the base outline and the fields of
\* the two engine objects as they were
C19_BasePolygonNeverWritten ==
    [][/\ base_clearance' = base_clearance
       /\ excel_calculator' = excel_calculator
       /\ clearance_model' = clearance_model]_vars

\* a calculation on a canted curve with an offset: the canvas shows an
\* outline that differs from the base outline, which is intact
C19_Witness ==
    /\ is_calculated
    /\ calculation_result.cant_mm # 0
    /\ calculation_result.curve_radius_m > 0
    /\ distance_var = "-1950"
    /\ drawn_clearance # base_clearance
    /\ base_clearance = create_accurate_clearance

\* sample i of the reference set of a radius, by the statement: the base
\* clearance at the i-th of 1775 evenly spaced heights of [0, 5700], plus the
\* widening of the radius
ReferenceSample(i, curve_radius_m) ==
    LET h == RoundDiv(i * 5700 * Scale, 1774)
    IN  <<calculate_base_clearance_at_height(h) + WideningByRule(curve_radius_m), h>>

\* C20: ag2 is the smallest Euclidean distance from the rail-centre point to
\* the 1775 samples (base_clearance_at_height(h) + widening(radius), h) at
\* evenly spaced heights of [0, 5700]; the samples depend on the radius
\* only and are not rotated by the cant.
C20_ReferenceSetOfRadiusOnly ==
    Evaluated =>
        LET rail == result.details.rail_center_coords
            ag2 == result.ag2_distance
            squared(i) ==
                SquaredDistance(rail[1], rail[2],
                                ReferenceSample(i, result.curve_radius_m))
        IN  /\ \A i \in 0..1774 : WLeq(Sq(ag2), squared(i))
            /\ \E i \in 0..1774 : WLess(squared(i), Sq(ag2 + 1))

\* a query on a canted curve, away from the reference set
C20_Witness ==
    /\ Evaluated
    /\ result.cant_mm # 0
    /\ result.curve_radius_m > 0
    /\ result.measurement_height > 0
    /\ result.ag2_distance > 13 * Scale

\* the steps the statements about the transformations are written in
WidenedVertex(vertex, curve_radius_m) ==
    <<vertex[1] + Sign(vertex[1]) * WideningByRule(curve_radius_m), vertex[2]>>

RotatedVertex(vertex, cant_mm, hypotenuse) ==
    <<TimesCosOver(vertex[1], hypotenuse)
          - TimesSinOver(vertex[2], cant_mm, hypotenuse),
      TimesSinOver(vertex[1], cant_mm, hypotenuse)
          + TimesCosOver(vertex[2], hypotenuse)>>

MovedVertex(vertex, offset) == <<vertex[1] + offset, vertex[2]>>

\* C13 as stated: every envelope transformation, of V22 and of V10, returns
\* each vertex widened by sign(x) * widening(radius) and then rotated by the
\* cant angle about the rail centre, whatever the measured offset is.
C13_WidenThenRotateEverywhere ==
    transformed # NoResult =>
        LET hypotenuse == Hypotenuse(transform_input.cant_mm)
        IN  /\ Len(transformed.outline) = Len(caller_points)
            /\ \A i \in 1..Len(caller_points) :
                  transformed.outline[i] =
                      RotatedVertex(
                          WidenedVertex(caller_points[i], transform_input.curve_radius_m),
                          transform_input.cant_mm, hypotenuse)

\* C13 amended: the transformation of V22 widens each vertex by
\* sign(x) * widening(radius) and then rotates it by the cant angle about
\* the measured point (-measurement_distance, 0): it moves the vertex by the
\* measured offset, rotates, and moves it back; the transformation of V10
\* rotates each vertex about the rail centre first and widens it afterwards.
C13_WidenThenRotateAboutMeasuredPoint ==
    transformed # NoResult =>
        LET hypotenuse == Hypotenuse(transform_input.cant_mm)
            cant_mm == transform_input.cant_mm
            curve_radius_m == transform_input.curve_radius_m
            measurement_distance == transform_input.measurement_distance
        IN  /\ Len(transformed.outline) = Len(caller_points)
            /\ TransformedByV22 =>
                  \A i \in 1..Len(caller_points) :
                      transformed.outline[i] =
                          MovedVertex(
                              RotatedVertex(
                                  MovedVertex(
                                      WidenedVertex(caller_points[i], curve_radius_m),
                                      measurement_distance),
                                  cant_mm, hypotenuse),
                              -measurement_distance)
            /\ TransformedByV10 =>
                  \A i \in 1..Len(caller_points) :
                      transformed.outline[i] =
                          WidenedVertex(
                              RotatedVertex(caller_points[i], cant_mm, hypotenuse),
                              curve_radius_m)

\* a call of the V22 transformation on a canted curve with an offset, whose
\* outline is not the one turned about the rail centre
C13_Witness ==
    /\ TransformedByV22
    /\ transform_input.cant_mm # 0
    /\ transform_input.curve_radius_m > 0
    /\ transform_input.measurement_distance # 0
    /\ \E i \in 1..Len(caller_points) :
          transformed.outline[i] #
              RotatedVertex(
                  WidenedVertex(caller_points[i], transform_input.curve_radius_m),
                  transform_input.cant_mm, Hypotenuse(transform_input.cant_mm))

\* a call of the V10 transformation on a canted curve, whose outline is not
\* the widened outline rotated
C13_WitnessV10 ==
    /\ TransformedByV10
    /\ transform_input.cant_mm # 0
    /\ transform_input.curve_radius_m > 0
    /\ \E i \in 1..Len(caller_points) :
          transformed.outline[i] #
              RotatedVertex(
                  WidenedVertex(caller_points[i], transform_input.curve_radius_m),
                  transform_input.cant_mm, Hypotenuse(transform_input.cant_mm))

\* C21: the cant angle is atan(cant / 1067) for every cant, negative ones
\* included: every implementation returns an angle strictly between -pi/2
\* and pi/2, the one the V22 engine computes, with no full turn added.
C21_CantAngleIsArctangent ==
    AngleComputed =>
        /\ corrections.general = atan(corrections.cant, rail_gauge)
        /\ corrections.fixed = atan(corrections.cant, rail_gauge)
        /\ corrections.rail_center = atan(corrections.cant, rail_gauge)
        /\ \A angle \in {corrections.general, corrections.fixed,
                          corrections.rail_center} :
              -HalfPi < angle /\ angle < HalfPi

\* the V22 engine alone keeps to the arctangent
C21_RailCenterAngleIsArctangent ==
    AngleComputed =>
        /\ corrections.rail_center = atan(corrections.cant, rail_gauge)
        /\ -HalfPi < corrections.rail_center
        /\ corrections.rail_center < HalfPi

C21_Witness == AngleComputed /\ corrections.cant < 0

----------------------------------------------------------------------------
(* The verdict beside the required clearance and the margin.               *)

\* C22 as claimed: on straight level track (cant 0, radius 0), for a height
\* in [0, 5700] and an offset >= 0, an offset smaller than the reported
\* required clearance is reported as interference.
C22_VerdictAgreesWithRequiredClearance ==
    (/\ Evaluated
     /\ measurement.cant_mm = 0
     /\ measurement.curve_radius_m = 0
     /\ measurement.measurement_height >= 0
     /\ measurement.measurement_height <= 5700 * Scale
     /\ measurement.measurement_distance >= 0
     /\ measurement.measurement_distance < result.required_clearance) =>
        result.is_interference

\* the same from 375 mm up, above the foot and the ramp, where the required
\* clearance is the limit of the inside test
C22_VerdictAgreesAboveTheRamp ==
    (/\ Evaluated
     /\ measurement.cant_mm = 0
     /\ measurement.curve_radius_m = 0
     /\ measurement.measurement_height >= 375 * Scale
     /\ measurement.measurement_height <= 5700 * Scale
     /\ measurement.measurement_distance >= 0
     /\ measurement.measurement_distance < result.required_clearance) =>
        result.is_interference

C22_Witness ==
    /\ Evaluated
    /\ measurement.cant_mm = 0
    /\ measurement.curve_radius_m = 0
    /\ measurement.measurement_height >= 375 * Scale
    /\ measurement.measurement_height <= 5700 * Scale
    /\ measurement.measurement_distance < result.required_clearance
    /\ result.is_interference

\* C23 as claimed: a result that is not an interference has a final margin
\* of at least 1 mm.
C23_ClearMarginAtLeastOne ==
    (Evaluated /\ ~result.is_interference) => result.clearance_margin >= 1

C23_WitnessClearWithZero ==
    Evaluated /\ ~result.is_interference /\ result.clearance_margin = 0

\* C24: the final margin is a non-negative whole number of millimetres, and
\* for a clear result final_margin <= corrected_margin <= ag2.
C24_MarginIsConservative ==
    Evaluated =>
        /\ result.clearance_margin \in Nat
        /\ ~result.is_interference =>
              /\ result.clearance_margin * Scale <= result.details.corrected_margin
              /\ result.details.corrected_margin <= result.details.ag2

\* a clear result in the middle tier, where the three values differ
C24_Witness ==
    /\ Evaluated
    /\ ~result.is_interference
    /\ result.clearance_margin * Scale < result.details.corrected_margin
    /\ result.details.corrected_margin < result.details.ag2

----------------------------------------------------------------------------
(* The sign of the entered offset.                                         *)

\* C25: calculate stores the same required clearance, margin and
\* interference flag for an entered distance d as for -d, whatever the
\* height, cant and radius.
C25_SignOfDistanceIgnored ==
    [][(calculate /\ is_calculated') =>
          LET mirrored == stored_by_calculate(
                  -(float_of(distance_var) * Scale), float_of(height_var) * Scale,
                  float_of(cant_var), float_of(radius_var))
          IN  /\ calculation_result'.required_clearance = mirrored.required_clearance
              /\ calculation_result'.clearance_margin = mirrored.clearance_margin
              /\ calculation_result'.is_interference = mirrored.is_interference]_vars

\* a result stored for a negative offset in the entry
C25_Witness ==
    /\ is_calculated
    /\ distance_var = "-1950"
    /\ ~raises_ValueError(height_var)
    /\ calculation_result =
           stored_by_calculate(
               float_of(distance_var) * Scale, float_of(height_var) * Scale,
               float_of(cant_var), float_of(radius_var))
    /\ calculation_result.measurement_distance = 1950 * Scale

----------------------------------------------------------------------------
(* The stored result, its flag and reset_values.                           *)

\* C26 as claimed: after any sequence of calculate and reset_values
\* actions, is_calculated is True exactly when a result is stored; a
\* calculate failing on unparsable input leaves no earlier result stored.
C26_FlagIffResultStored ==
    is_calculated <=> calculation_result # NoResult

\* the flag never stands without a result
C26_FlagImpliesResultStored ==
    is_calculated => calculation_result # NoResult

\* a result left stored by a calculate that failed
C26_WitnessStaleResult ==
    /\ error_dialog
    /\ ~is_calculated
    /\ calculation_result # NoResult

\* C27: reset_values leads to the state after construction from every
\* reachable state: the four entries read "0", no result is stored, the
\* flag is False, the panel is empty and the canvas shows the base outline;
\* update_display and display_results then return at once, and a second
\* reset_values changes nothing.
C27_ResetRestoresInitialState ==
    [][reset_values =>
          /\ InitApp'
          /\ display_results(result_text, calculation_result)' = <<>>
          /\ update_display(drawn_clearance, is_calculated, <<>>)' = base_clearance'
          /\ (~ENABLED <<reset_values>>_vars)']_vars

\* a state with a result and changed entries, from which reset_values acts
C27_Witness ==
    /\ is_calculated
    /\ calculation_result # NoResult
    /\ result_text # <<>>
    /\ drawn_clearance # base_clearance
    /\ distance_var # "0"
    /\ ENABLED <<reset_values>>_vars

----------------------------------------------------------------------------
(* NumericKeypad: the display, the buttons and the target entry.  A text   *)
(* is the sequence of its characters.  The code puts no limit on the       *)
(* length of the display; here a press that would make it longer than      *)
(* MaxDisplayLength is not taken.  Up to that length str(float(text)) is   *)
(* in positional notation.                                                 *)

MaxDisplayLength == 4

\* the digit buttons pressed
KeypadDigits == {"0", "5"}

\* the buttons: 'C', the sign button, the backspace button, '.', the
\* confirm button and the digits
Buttons == {"C", "+-", "<-", ".", "OK"} \cup KeypadDigits

Digits == {"0", "1", "2", "3", "4", "5", "6", "7", "8", "9"}

\* what the target entry holds when the keypad is opened
EntryContents ==
    {<<>>, <<"0">>, <<"5">>, <<"-", "5">>, <<"5", ".", "0">>, <<"0", ".", "5">>}

\* the text without its sign
unsigned(text) ==
    IF text # <<>> /\ text[1] = "-" THEN Tail(text) ELSE text

\* float(text) raises ValueError: the text is not an optional sign followed
\* by digits with at most one point and at least one digit
display_raises_ValueError(text) ==
    LET body == unsigned(text)
    IN  \/ \E i \in 1..Len(body) : body[i] \notin Digits \cup {"."}
        \/ Cardinality({i \in 1..Len(body) : body[i] = "."}) > 1
        \/ ~ \E i \in 1..Len(body) : body[i] \in Digits

RECURSIVE strip_leading_zeros(_)
strip_leading_zeros(digits) ==
    IF digits # <<>> /\ digits[1] = "0" THEN strip_leading_zeros(Tail(digits))
    ELSE digits

RECURSIVE strip_trailing_zeros(_)
strip_trailing_zeros(digits) ==
    IF digits # <<>> /\ digits[Len(digits)] = "0"
    THEN strip_trailing_zeros(SubSeq(digits, 1, Len(digits) - 1))
    ELSE digits

\* float(text) of a text that float accepts: the sign (kept on zero), the
\* digits of the whole part without leading zeros and the digits of the
\* fraction without trailing zeros
float_of_display(text) ==
    LET body == unsigned(text)
        points == {i \in 1..Len(body) : body[i] = "."}
        point == IF points = {} THEN Len(body) + 1 ELSE CHOOSE i \in points : TRUE
    IN  [negative |-> text[1] = "-",
         whole |-> strip_leading_zeros(SubSeq(body, 1, point - 1)),
         fraction |-> strip_trailing_zeros(SubSeq(body, point + 1, Len(body)))]

\* str(value) of a float
str(value) ==
    (IF value.negative THEN <<"-">> ELSE <<>>)
        \o (IF value.whole = <<>> THEN <<"0">> ELSE value.whole)
        \o <<".">>
        \o (IF value.fraction = <<>> THEN <<"0">> ELSE value.fraction)

\* NumericKeypad(parent, entry_widget, allow_negative): the display starts
\* at "0" and takes the content of the entry unless that is empty or "0"
InitKeypad ==
    /\ measurement = NoMeasurement
    /\ result = NoResult
    /\ height = NoHeight
    /\ clearances = NoResult
    /\ curve_radius = NoRadius
    /\ corrections = NoResult
    /\ NoApplication
    /\ NoEnvelope
    /\ entry_widget \in EntryContents
    /\ allow_negative \in BOOLEAN
    /\ display_var =
           IF entry_widget # <<>> /\ entry_widget # <<"0">> THEN entry_widget
           ELSE <<"0">>
    /\ keypad_open = TRUE
    /\ keypad_error = FALSE

\* the confirm button writing the display into the entry before parsing it
confirm_writing_display_first ==
    IF display_raises_ValueError(display_var)
    THEN /\ keypad_error' = TRUE
         /\ entry_widget' = display_var
         /\ UNCHANGED <<display_var, keypad_open>>
    ELSE /\ entry_widget' = str(float_of_display(display_var))
         /\ keypad_open' = FALSE
         /\ keypad_error' = FALSE
         /\ UNCHANGED display_var

\* the confirm button: parse the display, then replace the content of the
\* entry and destroy the window; on ValueError only show the error
confirm ==
    IF display_raises_ValueError(display_var)
    THEN /\ keypad_error' = TRUE
         /\ UNCHANGED <<entry_widget, display_var, keypad_open>>
    ELSE /\ entry_widget' = str(float_of_display(display_var))
         /\ keypad_open' = FALSE
         /\ keypad_error' = FALSE
         /\ UNCHANGED display_var

\* the display after a button other than the confirm button
display_after(current, text, negative_allowed) ==
    IF text = "C" THEN <<"0">>
    ELSE IF text = "<-" THEN
        (IF Len(current) > 1 THEN SubSeq(current, 1, Len(current) - 1)
         ELSE <<"0">>)
    ELSE IF text = "+-" /\ negative_allowed THEN
        (IF current # <<"0">> THEN
            (IF current # <<>> /\ current[1] = "-" THEN Tail(current)
             ELSE <<"-">> \o current)
         ELSE current)
    ELSE IF text = "." THEN
        (IF \A i \in 1..Len(current) : current[i] # "." THEN current \o <<".">>
         ELSE current)
    ELSE IF text \in Digits THEN
        (IF current = <<"0">> THEN <<text>> ELSE current \o <<text>>)
    ELSE current

\* button_click(text) on the open keypad
button_click(text) ==
    /\ keypad_open
    /\ IF text = "OK" THEN confirm
       ELSE /\ Len(display_after(display_var, text, allow_negative)) <= MaxDisplayLength
            /\ display_var' = display_after(display_var, text, allow_negative)
            /\ keypad_error' = FALSE
            /\ UNCHANGED <<entry_widget, keypad_open>>
    /\ UNCHANGED allow_negative
    /\ UNCHANGED <<measurement, result, height, clearances, curve_radius, corrections, appVars, envelopeVars>>

NextKeypad == \E text \in Buttons : button_click(text)

SpecKeypad == InitKeypad /\ [][NextKeypad]_vars

----------------------------------------------------------------------------
(* Properties of the keypad.                                               *)

\* C28 as claimed: the keypad starts from a display holding a valid number,
\* and after any sequence of button presses the display is a non-empty
\* text that parses as a number, so the confirm button never shows the
\* invalid-number error.
C28_DisplayAlwaysParses ==
    /\ keypad_open => display_var # <<>> /\ ~display_raises_ValueError(display_var)
    /\ ~keypad_error

\* a display that does not begin with a sign parses, unless it is the lone
\* point typed into a display the sign button had emptied
C28_UnsignedDisplayParses ==
    (keypad_open /\ display_var # <<>> /\ display_var[1] # "-") =>
        (~display_raises_ValueError(display_var) \/ display_var = <<".">>)

\* a lone sign left by the backspace button, and the error it leads to
C28_WitnessLoneSign ==
    keypad_open /\ display_var = <<"-">> /\ keypad_error

C28_WitnessEmpty == keypad_open /\ display_var = <<>>

\* C29: the confirm button on a display that does not parse shows the
\* error and leaves the entry, the display and the window as they are; on
\* a display that parses it replaces the content of the entry by the
\* parsed value, which reads back as the number of the display, and closes
\* the keypad.
C29_ConfirmParsesBeforeWriting ==
    [][button_click("OK") =>
          IF display_raises_ValueError(display_var)
          THEN /\ keypad_error'
               /\ entry_widget' = entry_widget
               /\ display_var' = display_var
               /\ keypad_open'
          ELSE /\ entry_widget' = str(float_of_display(display_var))
               /\ ~display_raises_ValueError(entry_widget')
               /\ float_of_display(entry_widget') = float_of_display(display_var)
               /\ ~keypad_open'
               /\ ~keypad_error']_vars

\* the error shown over an entry that differs from the display
C29_Witness ==
    /\ keypad_open
    /\ keypad_error
    /\ display_raises_ValueError(display_var)
    /\ entry_widget # display_var
    /\ entry_widget # <<>>

\* a confirmed entry that differs from the display it was parsed from
C29_WitnessWritten ==
    /\ ~keypad_open
    /\ entry_widget = str(float_of_display(display_var))
    /\ entry_widget # display_var

----------------------------------------------------------------------------
(* The outline of BuildingLimitCalculatorFixed on straight level track.    *)

\* C30 as claimed: for radius 0 and cant 0 calculate_transformed_coordinates
\* returns transformed coordinates identical to the basic coordinates: no
\* widening, no slack and no cant displacement on any vertex.
C30_StraightLevelTrackIsIdentity ==
    (/\ CoordinatesTransformed
     /\ corrections.radius = 0
     /\ corrections.cant = 0) =>
        corrections.transformed_coords = corrections.basic_coords

\* without cant, the outline is returned as it is for the radii above 10000,
\* where the widening is cut off and the slack is 0
C30_IdentityAboveCutOff ==
    (/\ CoordinatesTransformed
     /\ corrections.radius > 10000
     /\ corrections.cant = 0) =>
        corrections.transformed_coords = corrections.basic_coords

\* on straight level track every vertex off the centre line is moved
\* outwards by half the slack of 20 mm and nothing else
C30_StraightLevelTrackHasSlack ==
    (/\ CoordinatesTransformed
     /\ corrections.radius = 0
     /\ corrections.cant = 0) =>
        \A i \in 1..Len(corrections.basic_coords) :
            LET vertex == corrections.basic_coords[i]
            IN  corrections.transformed_coords[i] =
                    <<vertex[1] + Sign(vertex[1]) * 10 * Scale, vertex[2]>>

C30_Witness ==
    /\ CoordinatesTransformed
    /\ corrections.radius = 0
    /\ corrections.cant = 0

====
